---- MODULE Spec2Model ----
(***************************************************************************)
(* Model of src/src/affective_core.py: the AffectiveCore object, its seven *)
(* DriveState records, its four InteroceptiveSignal records, the bounded   *)
(* histories and the developmental stage.                                  *)
(*                                                                         *)
(* Numbers.  Python floats are modelled as decimal fixed point numbers     *)
(* with four fractional digits: the integer n stands for n / Scale.        *)
(* Addition, subtraction, abs and comparison are the integer ones; a float *)
(* multiplication a * b is FMul(a, b), rounded toward zero to the fourth   *)
(* digit.  NaN and the infinities are outside the model.                   *)
(***************************************************************************)
EXTENDS Integers, Sequences, FiniteSets, TLC

VARIABLES drives, interoceptive_signals, affective_history, decision_history,
          current_tension, developmental_stage, result, calls

vars == <<drives, interoceptive_signals, affective_history, decision_history,
          current_tension, developmental_stage, result, calls>>

(***************************************************************************)
(* Fixed point arithmetic                                                  *)
(***************************************************************************)
Scale == 10000

Abs(x) == IF x < 0 THEN -x ELSE x

FMul(a, b) ==
    LET p == a * b
    IN  IF p >= 0 THEN p \div Scale ELSE -((-p) \div Scale)

Clip(x, lo, hi) == IF x < lo THEN lo ELSE IF x > hi THEN hi ELSE x

(***************************************************************************)
(* Program constants                                                       *)
(***************************************************************************)
HomeostasisRate == 1000
SatisfactionHistoryCap == 100
AffectiveHistoryCap == 1000
DecisionHistoryCap == 500
UrgencyThreshold == 3000
DefaultDeltaTime == 10000

\* DriveType, in the order of the enumeration, which is also the insertion
\* order of the drives dict and hence the order of every loop over it.
DriveOrder == <<"SEEK", "AVOID", "REST", "CARE", "PLAY", "RAGE", "LUST">>

DriveType == {DriveOrder[i] : i \in 1..Len(DriveOrder)}

SignalOrder == <<"energy", "integrity", "comfort", "social_connection">>

SignalNames == {SignalOrder[i] : i \in 1..Len(SignalOrder)}

\* optimal_range and affective_weight are never assigned after construction.
OptimalRange ==
    [energy |-> <<6000, 9000>>, integrity |-> <<8000, 10000>>,
     comfort |-> <<5000, 8000>>, social_connection |-> <<4000, 7000>>]

AffectiveWeight ==
    [energy |-> 9000, integrity |-> 10000,
     comfort |-> 6000, social_connection |-> 7000]

(***************************************************************************)
(* DriveState                                                              *)
(***************************************************************************)
NewDrive(level, optimal) ==
    [current_level |-> level, optimal_level |-> optimal, urgency |-> 0,
     satisfaction_history |-> <<>>]

_initialize_drives ==
    [k \in DriveType |->
        CASE k = "SEEK"  -> NewDrive(5000, 6000)
          [] k = "AVOID" -> NewDrive(3000, 1000)
          [] k = "REST"  -> NewDrive(5000, 7000)
          [] k = "CARE"  -> NewDrive(4000, 5000)
          [] k = "PLAY"  -> NewDrive(3000, 4000)
          [] k = "RAGE"  -> NewDrive(1000, 500)
          [] k = "LUST"  -> NewDrive(2000, 3000)]

_initialize_interoception ==
    [energy |-> 8000, integrity |-> 10000, comfort |-> 7000,
     social_connection |-> 5000]

\* DriveState.tension
tension(d) == Abs(d.current_level - d.optimal_level)

\* Variant of AppendBounded that never evicts.
AppendNoEvict(h, e, cap) == Append(h, e)

\* Variant of AppendBounded that evicts with pop() instead of pop(0).
AppendEvictNewest(h, e, cap) ==
    LET a == Append(h, e)
    IN  IF Len(a) > cap THEN SubSeq(a, 1, Len(a) - 1) ELSE a

\* list.append followed by "if len > cap: pop(0)"
AppendBounded(h, e, cap) ==
    LET a == Append(h, e)
    IN  IF Len(a) > cap THEN Tail(a) ELSE a

\* Variant of DriveUpdate without np.clip.
DriveUpdateNoClip(d, stimulus, delta_time) ==
    LET homeostasis == FMul(d.optimal_level - d.current_level, HomeostasisRate)
        level == d.current_level + homeostasis + FMul(stimulus, delta_time)
    IN  [current_level |-> level, optimal_level |-> d.optimal_level,
         urgency |-> Abs(level - d.optimal_level),
         satisfaction_history |->
             AppendBounded(d.satisfaction_history, level, SatisfactionHistoryCap)]

\* Variant of DriveUpdate whose homeostasis term is computed from the level
\* after the stimulus has been applied.
DriveUpdateLateHomeostasis(d, stimulus, delta_time) ==
    LET stimulated == d.current_level + FMul(stimulus, delta_time)
        level == Clip(stimulated + FMul(d.optimal_level - stimulated, HomeostasisRate),
                      0, Scale)
    IN  [current_level |-> level, optimal_level |-> d.optimal_level,
         urgency |-> Abs(level - d.optimal_level),
         satisfaction_history |->
             AppendBounded(d.satisfaction_history, level, SatisfactionHistoryCap)]

\* Variant of DriveUpdate whose homeostasis term divides by the rate where
\* the code multiplies.
DriveUpdateOvershoot(d, stimulus, delta_time) ==
    LET homeostasis == ((d.optimal_level - d.current_level) * Scale)
                       \div HomeostasisRate
        stimulus_effect == FMul(stimulus, delta_time)
        level == Clip(d.current_level + homeostasis + stimulus_effect, 0, Scale)
        d1 == [d EXCEPT !.current_level = level]
        d2 == [d1 EXCEPT !.urgency = tension(d1)]
    IN  [d2 EXCEPT !.satisfaction_history =
            AppendBounded(d.satisfaction_history, level, SatisfactionHistoryCap)]

\* Variant of DriveUpdate in which the set point adapts: the homeostasis
\* step is also applied to optimal_level, toward the new level.
DriveUpdateAdaptsOptimal(d, stimulus, delta_time) ==
    LET homeostasis == FMul(d.optimal_level - d.current_level, HomeostasisRate)
        stimulus_effect == FMul(stimulus, delta_time)
        level == Clip(d.current_level + homeostasis + stimulus_effect, 0, Scale)
        optimal == d.optimal_level + FMul(level - d.optimal_level, HomeostasisRate)
        d1 == [d EXCEPT !.current_level = level, !.optimal_level = optimal]
        d2 == [d1 EXCEPT !.urgency = tension(d1)]
    IN  [d2 EXCEPT !.satisfaction_history =
            AppendBounded(d.satisfaction_history, level, SatisfactionHistoryCap)]

\* DriveState.update
DriveUpdate(d, stimulus, delta_time) ==
    LET homeostasis == FMul(d.optimal_level - d.current_level, HomeostasisRate)
        stimulus_effect == FMul(stimulus, delta_time)
        level == Clip(d.current_level + homeostasis + stimulus_effect, 0, Scale)
        d1 == [d EXCEPT !.current_level = level]
        d2 == [d1 EXCEPT !.urgency = tension(d1)]
    IN  [d2 EXCEPT !.satisfaction_history =
            AppendBounded(d.satisfaction_history, level, SatisfactionHistoryCap)]

(***************************************************************************)
(* InteroceptiveSignal                                                     *)
(***************************************************************************)
is_optimal(sig, name) ==
    OptimalRange[name][1] <= sig[name] /\ sig[name] <= OptimalRange[name][2]

\* Variant of deviation without the branch for a value above the range.
deviationBelowOnly(sig, name) ==
    IF sig[name] < OptimalRange[name][1] THEN OptimalRange[name][1] - sig[name]
    ELSE 0

deviation(sig, name) ==
    IF sig[name] < OptimalRange[name][1] THEN OptimalRange[name][1] - sig[name]
    ELSE IF sig[name] > OptimalRange[name][2] THEN sig[name] - OptimalRange[name][2]
    ELSE 0

RECURSIVE InteroLoop(_, _, _)
InteroLoop(sig, i, acc) ==
    IF i > Len(SignalOrder) THEN acc
    ELSE LET name == SignalOrder[i]
         IN  InteroLoop(sig, i + 1,
                IF ~is_optimal(sig, name)
                THEN acc + FMul(deviation(sig, name), AffectiveWeight[name])
                ELSE acc)

_compute_interoceptive_tension(sig) == InteroLoop(sig, 1, 0)

(***************************************************************************)
(* Queries of AffectiveCore                                                *)
(***************************************************************************)
\* get_dominant_drive: scan with a strict > against the running maximum.
RECURSIVE DominantLoop(_, _, _, _)
DominantLoop(dr, i, most_urgent_drive, highest_urgency) ==
    IF i > Len(DriveOrder)
    THEN [drive |-> most_urgent_drive, urgency |-> highest_urgency]
    ELSE IF dr[DriveOrder[i]].urgency > highest_urgency
         THEN DominantLoop(dr, i + 1, DriveOrder[i], dr[DriveOrder[i]].urgency)
         ELSE DominantLoop(dr, i + 1, most_urgent_drive, highest_urgency)

\* Variant of get_dominant_drive that compares with >=, so that the last
\* of several equally urgent drives wins.
RECURSIVE DominantLoopLastWins(_, _, _, _)
DominantLoopLastWins(dr, i, most_urgent_drive, highest_urgency) ==
    IF i > Len(DriveOrder)
    THEN [drive |-> most_urgent_drive, urgency |-> highest_urgency]
    ELSE IF dr[DriveOrder[i]].urgency >= highest_urgency
         THEN DominantLoopLastWins(dr, i + 1, DriveOrder[i], dr[DriveOrder[i]].urgency)
         ELSE DominantLoopLastWins(dr, i + 1, most_urgent_drive, highest_urgency)

get_dominant_drive_last_wins(dr) == DominantLoopLastWins(dr, 1, "None", -Scale)

get_dominant_drive(dr) == DominantLoop(dr, 1, "None", -Scale)

_drives_opposed(drive1, drive2) ==
    LET opposed_pairs == {<<"SEEK", "AVOID">>, <<"RAGE", "CARE">>,
                          <<"PLAY", "REST">>}
    IN  <<drive1, drive2>> \in opposed_pairs \/ <<drive2, drive1>> \in opposed_pairs

\* Variant of IsUrgent that compares with >=.
IsUrgentInclusive(dr, k) == dr[k].urgency >= UrgencyThreshold

IsUrgent(dr, k) == dr[k].urgency > UrgencyThreshold

RECURSIVE ConflictLoop(_, _, _, _, _)
ConflictLoop(dr, urgent, i, j, acc) ==
    IF i > Len(urgent) THEN acc
    ELSE IF j > Len(urgent) THEN ConflictLoop(dr, urgent, i + 1, i + 2, acc)
    ELSE ConflictLoop(dr, urgent, i, j + 1,
            IF _drives_opposed(urgent[i], urgent[j])
            THEN acc + FMul(dr[urgent[i]].urgency, dr[urgent[j]].urgency)
            ELSE acc)

compute_affective_conflict(dr) ==
    LET urgent_drives == SelectSeq(DriveOrder, LAMBDA k : IsUrgent(dr, k))
    IN  IF Len(urgent_drives) < 2 THEN 0
        ELSE ConflictLoop(dr, urgent_drives, 1, 2, 0)

get_affective_summary(dr, sig, ten, stage) ==
    LET dom == get_dominant_drive(dr)
    IN  [current_tension |-> ten,
         affective_conflict |-> compute_affective_conflict(dr),
         dominant_drive |-> dom.drive,
         dominant_urgency |-> dom.urgency,
         drive_states |-> [k \in DriveType |->
             [level |-> dr[k].current_level, urgency |-> dr[k].urgency,
              tension |-> tension(dr[k])]],
         interoceptive_states |-> [n \in SignalNames |->
             [value |-> sig[n], optimal |-> is_optimal(sig, n),
              deviation |-> deviation(sig, n)]],
         developmental_stage |-> stage]

(***************************************************************************)
(* Construction                                                            *)
(***************************************************************************)
NoCalls == [update_drives |-> 0, update_interoception |-> 0, record_decision |-> 0,
            advance_developmental_stage |-> 0, raised |-> 0]

Init ==
    /\ drives = _initialize_drives
    /\ interoceptive_signals = _initialize_interoception
    /\ affective_history = <<>>
    /\ decision_history = <<>>
    /\ current_tension = 0
    /\ developmental_stage = 1
    /\ result = [op |-> "__init__", args |-> <<>>, raised |-> FALSE, value |-> 0]
    /\ calls = NoCalls

(***************************************************************************)
(* Operations of AffectiveCore.  result records the last call, its         *)
(* arguments, whether it raised an exception and the value it returned (0  *)
(* for None); calls counts, per method, the calls that have returned, and  *)
(* in calls.raised the calls that have raised.                             *)
(***************************************************************************)
\* The numbers of the model are integers.  NotANumber stands for an argument
\* value that is not a number (a str, None): "stimulus * delta_time + ..."
\* in DriveState.update and "signal.current_value + change" in
\* update_interoception raise TypeError on it, before anything is assigned.
NotANumber == -999999999

\* external_stimuli.get(drive_type, 0.0)
StimulusOf(external_stimuli, k) ==
    IF k \in DOMAIN external_stimuli THEN external_stimuli[k] ELSE 0

\* The loop of update_drives over self.drives.items(): drive i is updated,
\* then its urgency * tension() is added to total_tension.  drive.update
\* raises on a stimulus that is not a number; the exception leaves the loop
\* and the method, with the drives before i already updated.
RECURSIVE DrivesLoop(_, _, _, _, _)
DrivesLoop(dr, external_stimuli, delta_time, i, total_tension) ==
    IF i > Len(DriveOrder)
    THEN [drives |-> dr, total_tension |-> total_tension, raised |-> FALSE]
    ELSE LET k == DriveOrder[i]
             stimulus == StimulusOf(external_stimuli, k)
             drive_state == DriveUpdate(dr[k], stimulus, delta_time)
         IN  IF stimulus = NotANumber
             THEN [drives |-> dr, total_tension |-> total_tension, raised |-> TRUE]
             ELSE DrivesLoop([dr EXCEPT ![k] = drive_state], external_stimuli,
                             delta_time, i + 1,
                             total_tension
                             + FMul(drive_state.urgency, tension(drive_state)))

Count(field) == [calls EXCEPT ![field] = @ + 1]

\* Variant of UpdateDrives that leaves the interoceptive tension out of the
\* total.
UpdateDrivesNoInteroception(external_stimuli, delta_time) ==
    LET loop == DrivesLoop(drives, external_stimuli, delta_time, 1, 0)
        total_tension == loop.total_tension
        snapshot == [timestamp |-> Len(affective_history),
                     tension |-> total_tension,
                     drive_states |-> [k \in DriveType |-> loop.drives[k].current_level],
                     interoceptive_states |-> interoceptive_signals]
        args == [external_stimuli |-> external_stimuli, delta_time |-> delta_time]
    IN  /\ drives' = loop.drives
        /\ IF loop.raised
           THEN /\ result' = [op |-> "update_drives", args |-> args,
                              raised |-> TRUE, value |-> 0]
                /\ calls' = Count("raised")
                /\ UNCHANGED <<current_tension, affective_history>>
           ELSE /\ current_tension' = total_tension
                /\ affective_history' =
                       AppendBounded(affective_history, snapshot,
                                     AffectiveHistoryCap)
                /\ result' = [op |-> "update_drives", args |-> args,
                              raised |-> FALSE, value |-> total_tension]
                /\ calls' = Count("update_drives")
        /\ UNCHANGED <<interoceptive_signals, decision_history, developmental_stage>>

UpdateDrives(external_stimuli, delta_time) ==
    LET loop == DrivesLoop(drives, external_stimuli, delta_time, 1, 0)
        total_tension == loop.total_tension
                         + _compute_interoceptive_tension(interoceptive_signals)
        snapshot == [timestamp |-> Len(affective_history),
                     tension |-> total_tension,
                     drive_states |-> [k \in DriveType |-> loop.drives[k].current_level],
                     interoceptive_states |-> interoceptive_signals]
        args == [external_stimuli |-> external_stimuli, delta_time |-> delta_time]
    IN  /\ drives' = loop.drives
        /\ IF loop.raised
           THEN /\ result' = [op |-> "update_drives", args |-> args,
                              raised |-> TRUE, value |-> 0]
                /\ calls' = Count("raised")
                /\ UNCHANGED <<current_tension, affective_history>>
           ELSE /\ current_tension' = total_tension
                /\ affective_history' =
                       AppendBounded(affective_history, snapshot,
                                     AffectiveHistoryCap)
                /\ result' = [op |-> "update_drives", args |-> args,
                              raised |-> FALSE, value |-> total_tension]
                /\ calls' = Count("update_drives")
        /\ UNCHANGED <<interoceptive_signals, decision_history, developmental_stage>>

\* The keys of every internal_changes dict the model passes are written in
\* this order, so internal_changes.items() yields them in this order.
ChangeOrder == <<"energy", "hunger", "integrity", "comfort", "social_connection">>

Items(internal_changes) ==
    SelectSeq(ChangeOrder, LAMBDA n : n \in DOMAIN internal_changes)

\* Variant of SignalUpdate without np.clip.
SignalUpdateNoClip(current_value, change) == current_value + change

\* signal.current_value = np.clip(signal.current_value + change, 0.0, 1.0)
SignalUpdate(current_value, change) == Clip(current_value + change, 0, Scale)

\* Variant of InteroceptionLoop that looks every name up in
\* self.interoceptive_signals without the membership test: an unknown name
\* raises (KeyError).
RECURSIVE InteroceptionLoopKeyError(_, _, _)
InteroceptionLoopKeyError(sig, internal_changes, i) ==
    IF i > Len(Items(internal_changes)) THEN [signals |-> sig, raised |-> FALSE]
    ELSE LET signal_name == Items(internal_changes)[i]
             change == internal_changes[signal_name]
         IN  IF signal_name \notin SignalNames \/ change = NotANumber
             THEN [signals |-> sig, raised |-> TRUE]
             ELSE InteroceptionLoopKeyError(
                      [sig EXCEPT ![signal_name] = SignalUpdate(@, change)],
                      internal_changes, i + 1)

\* The loop of update_interoception over internal_changes.items(): a name
\* that is not a signal of the core is skipped; the sum raises on a change
\* that is not a number, with the signals of the earlier items already
\* assigned.
RECURSIVE InteroceptionLoop(_, _, _)
InteroceptionLoop(sig, internal_changes, i) ==
    IF i > Len(Items(internal_changes)) THEN [signals |-> sig, raised |-> FALSE]
    ELSE LET signal_name == Items(internal_changes)[i]
             change == internal_changes[signal_name]
         IN  IF signal_name \notin SignalNames
             THEN InteroceptionLoop(sig, internal_changes, i + 1)
             ELSE IF change = NotANumber
             THEN [signals |-> sig, raised |-> TRUE]
             ELSE InteroceptionLoop(
                      [sig EXCEPT ![signal_name] = SignalUpdate(@, change)],
                      internal_changes, i + 1)

UpdateInteroception(internal_changes) ==
    LET loop == InteroceptionLoop(interoceptive_signals, internal_changes, 1)
    IN  /\ interoceptive_signals' = loop.signals
        /\ result' = [op |-> "update_interoception",
                      args |-> [internal_changes |-> internal_changes],
                      raised |-> loop.raised, value |-> 0]
        /\ calls' = IF loop.raised THEN Count("raised")
                                   ELSE Count("update_interoception")
        /\ UNCHANGED <<drives, affective_history, decision_history,
                       current_tension, developmental_stage>>

\* Variant of RecordDecision that computes the summary once: an entry after
\* the first repeats the affective_state of the entry before it.
RecordDecisionCachedSummary(decision_context, choice) ==
    LET entry == [timestamp |-> Len(decision_history),
                  context |-> decision_context,
                  choice |-> choice,
                  affective_state |->
                      IF decision_history # <<>>
                      THEN decision_history[Len(decision_history)].affective_state
                      ELSE get_affective_summary(drives, interoceptive_signals,
                                                 current_tension,
                                                 developmental_stage)]
    IN  /\ decision_history' =
               AppendBounded(decision_history, entry, DecisionHistoryCap)
        /\ result' = [op |-> "record_decision",
                      args |-> [decision_context |-> decision_context,
                                choice |-> choice],
                      raised |-> FALSE,
                      value |-> 0]
        /\ calls' = Count("record_decision")
        /\ UNCHANGED <<drives, interoceptive_signals, affective_history,
                       current_tension, developmental_stage>>

RecordDecision(decision_context, choice) ==
    LET entry == [timestamp |-> Len(decision_history),
                  context |-> decision_context,
                  choice |-> choice,
                  affective_state |->
                      get_affective_summary(drives, interoceptive_signals,
                                            current_tension, developmental_stage)]
    IN  /\ decision_history' =
               AppendBounded(decision_history, entry, DecisionHistoryCap)
        /\ result' = [op |-> "record_decision",
                      args |-> [decision_context |-> decision_context,
                                choice |-> choice],
                      raised |-> FALSE,
                      value |-> 0]
        /\ calls' = Count("record_decision")
        /\ UNCHANGED <<drives, interoceptive_signals, affective_history,
                       current_tension, developmental_stage>>

\* Variant of StageOptimal whose stage 2 branch also runs on entering stage 3
\* ("if" where the code has "elif", with the first test widened to >= 2).
StageOptimalFallThrough(dr, new_stage) ==
    [k \in DriveType |->
        IF new_stage = 3 /\ k \notin {"SEEK", "PLAY"}
        THEN [dr[k] EXCEPT !.optimal_level = 5000]
        ELSE IF k = "SEEK" THEN [dr[k] EXCEPT !.optimal_level = 7000]
        ELSE IF k = "PLAY" THEN [dr[k] EXCEPT !.optimal_level = 6000]
        ELSE dr[k]]

\* The optimal levels after entering new_stage.
\* Variant of StageOptimal that recomputes urgency from the new optimal
\* levels.
StageOptimalRefreshUrgency(dr, new_stage) ==
    [k \in DriveType |->
        LET optimal == IF new_stage = 2
                       THEN (IF k = "SEEK" THEN 7000
                             ELSE IF k = "PLAY" THEN 6000
                             ELSE dr[k].optimal_level)
                       ELSE IF new_stage = 3 THEN 5000
                       ELSE dr[k].optimal_level
        IN  [dr[k] EXCEPT !.optimal_level = optimal,
                          !.urgency = Abs(dr[k].current_level - optimal)]]

StageOptimal(dr, new_stage) ==
    [k \in DriveType |->
        IF new_stage = 2
        THEN (IF k = "SEEK" THEN [dr[k] EXCEPT !.optimal_level = 7000]
              ELSE IF k = "PLAY" THEN [dr[k] EXCEPT !.optimal_level = 6000]
              ELSE dr[k])
        ELSE IF new_stage = 3 THEN [dr[k] EXCEPT !.optimal_level = 5000]
        ELSE dr[k]]

\* Variant of AdvanceDevelopmentalStage without the "< 3" guard.
AdvanceUnguarded ==
    /\ developmental_stage' = developmental_stage + 1
    /\ drives' = StageOptimal(drives, developmental_stage + 1)
    /\ result' = [op |-> "advance_developmental_stage", args |-> <<>>,
                  raised |-> FALSE, value |-> 0]
    /\ calls' = Count("advance_developmental_stage")
    /\ UNCHANGED <<interoceptive_signals, affective_history, decision_history,
                   current_tension>>

AdvanceDevelopmentalStage ==
    /\ IF developmental_stage < 3
       THEN /\ developmental_stage' = developmental_stage + 1
            /\ drives' = StageOptimal(drives, developmental_stage + 1)
       ELSE UNCHANGED <<developmental_stage, drives>>
    /\ result' = [op |-> "advance_developmental_stage", args |-> <<>>,
                  raised |-> FALSE, value |-> 0]
    /\ calls' = Count("advance_developmental_stage")
    /\ UNCHANGED <<interoceptive_signals, affective_history, decision_history,
                   current_tension>>

\* The queries assign nothing.
Frame == UNCHANGED <<drives, interoceptive_signals, affective_history,
                     decision_history, current_tension, developmental_stage, calls>>

GetDominantDrive ==
    /\ result' = [op |-> "get_dominant_drive", args |-> <<>>,
                  raised |-> FALSE,
                  value |-> get_dominant_drive(drives)]
    /\ Frame

ComputeAffectiveConflict ==
    /\ result' = [op |-> "compute_affective_conflict", args |-> <<>>,
                  raised |-> FALSE,
                  value |-> compute_affective_conflict(drives)]
    /\ Frame

GetAffectiveSummary ==
    /\ result' = [op |-> "get_affective_summary", args |-> <<>>,
                  raised |-> FALSE,
                  value |-> get_affective_summary(drives, interoceptive_signals,
                                current_tension, developmental_stage)]
    /\ Frame

(***************************************************************************)
(* Inputs                                                                  *)
(***************************************************************************)
EmptyStimuli == <<>>

\* the stimuli of the __main__ example
MainStimuli == ("SEEK" :> 3000) @@ ("AVOID" :> 4000) @@ ("REST" :> -2000)

\* stimuli large enough to drive every level to a bound of [0,1]
HighStimuli == [k \in DriveType |-> 20000]

MixedStimuli ==
    [k \in DriveType |->
        IF k \in {"SEEK", "CARE", "PLAY"} THEN 20000
        ELSE IF k = "LUST" THEN 0 ELSE -20000]

\* the (external_stimuli, delta_time) arguments of update_drives
DriveInputs ==
    {[external_stimuli |-> EmptyStimuli, delta_time |-> DefaultDeltaTime],
     [external_stimuli |-> MainStimuli, delta_time |-> DefaultDeltaTime],
     [external_stimuli |-> MainStimuli, delta_time |-> 5000],
     [external_stimuli |-> HighStimuli, delta_time |-> DefaultDeltaTime],
     [external_stimuli |-> MixedStimuli, delta_time |-> 5000]}

\* "hunger" is not a signal of the core
ChangesSet ==
    {("energy" :> -5000) @@ ("hunger" :> 1000),
     ("integrity" :> 5000) @@ ("comfort" :> -20000)
         @@ ("social_connection" :> 4000)}

ContextSet == {[situation |-> "threat"]}

ChoiceSet == {"approach"}

(***************************************************************************)
(* Spec: every operation with every input, in any order, for a bounded     *)
(* number of state-changing calls.                                         *)
(***************************************************************************)
MaxCalls == 4

TotalCalls ==
    calls.update_drives + calls.update_interoception + calls.record_decision
    + calls.advance_developmental_stage + calls.raised

DoUpdateDrives ==
    /\ TotalCalls < MaxCalls
    /\ \E in \in DriveInputs : UpdateDrives(in.external_stimuli, in.delta_time)

DoUpdateInteroception ==
    /\ TotalCalls < MaxCalls
    /\ \E c \in ChangesSet : UpdateInteroception(c)

DoRecordDecision ==
    /\ TotalCalls < MaxCalls
    /\ \E ctx \in ContextSet, ch \in ChoiceSet : RecordDecision(ctx, ch)

DoAdvance ==
    /\ TotalCalls < MaxCalls
    /\ AdvanceDevelopmentalStage

Next ==
    \/ DoUpdateDrives
    \/ DoUpdateInteroception
    \/ DoRecordDecision
    \/ DoAdvance
    \/ GetDominantDrive
    \/ ComputeAffectiveConflict
    \/ GetAffectiveSummary

Spec == Init /\ [][Next]_vars

(***************************************************************************)
(* SpecLong: a long session, so that the three histories reach and pass    *)
(* their capacities.  The ticks follow a fixed cyclic script of stimuli;   *)
(* all the ticks come first, then all the decisions; the other operations  *)
(* are called between the two phases and at the end, when the histories    *)
(* are full.                                                               *)
(***************************************************************************)
LongTicks == 1002
LongDecisions == 502
LongOtherCalls == 2

LongScript ==
    <<[stimuli |-> MainStimuli, delta_time |-> DefaultDeltaTime],
      [stimuli |-> EmptyStimuli, delta_time |-> DefaultDeltaTime],
      [stimuli |-> MixedStimuli, delta_time |-> 5000],
      [stimuli |-> MainStimuli, delta_time |-> 5000],
      [stimuli |-> HighStimuli, delta_time |-> DefaultDeltaTime]>>

LongInput(n) == LongScript[(n % Len(LongScript)) + 1]

Milestone ==
    /\ calls.update_drives = LongTicks
    /\ calls.record_decision \in {0, LongDecisions}

OtherCallsLeft ==
    calls.update_interoception + calls.advance_developmental_stage < LongOtherCalls

LongUpdateDrives ==
    /\ calls.update_drives < LongTicks
    /\ UpdateDrives(LongInput(calls.update_drives).stimuli,
                    LongInput(calls.update_drives).delta_time)

LongRecordDecision ==
    /\ calls.update_drives = LongTicks
    /\ calls.record_decision < LongDecisions
    /\ \E ctx \in ContextSet, ch \in ChoiceSet : RecordDecision(ctx, ch)

LongUpdateInteroception ==
    /\ Milestone
    /\ OtherCallsLeft
    /\ \E c \in ChangesSet : UpdateInteroception(c)

LongAdvance ==
    /\ Milestone
    /\ OtherCallsLeft
    /\ AdvanceDevelopmentalStage

LongGetDominantDrive == Milestone /\ GetDominantDrive

LongComputeAffectiveConflict == Milestone /\ ComputeAffectiveConflict

LongGetAffectiveSummary == Milestone /\ GetAffectiveSummary

LongNext ==
    \/ LongUpdateDrives
    \/ LongRecordDecision
    \/ LongUpdateInteroception
    \/ LongAdvance
    \/ LongGetDominantDrive
    \/ LongComputeAffectiveConflict
    \/ LongGetAffectiveSummary

SpecLong == Init /\ [][LongNext]_vars

(***************************************************************************)
(* SpecErr: calls whose arguments hold a key or a name the core does not   *)
(* know, or a value that is not a number, among well-formed calls.         *)
(***************************************************************************)
\* "HUNGER" is not a member of DriveType
UnknownKeyStimuli == ("SEEK" :> 3000) @@ ("HUNGER" :> 5000)

UnknownKeyMalformedStimuli == ("SEEK" :> 3000) @@ ("HUNGER" :> NotANumber)

\* SEEK comes before AVOID in self.drives
MalformedStimuli == ("SEEK" :> 3000) @@ ("AVOID" :> NotANumber)

ErrDriveInputs ==
    {[external_stimuli |-> EmptyStimuli, delta_time |-> DefaultDeltaTime],
     [external_stimuli |-> MainStimuli, delta_time |-> DefaultDeltaTime],
     [external_stimuli |-> UnknownKeyStimuli, delta_time |-> DefaultDeltaTime],
     [external_stimuli |-> UnknownKeyMalformedStimuli,
      delta_time |-> DefaultDeltaTime],
     [external_stimuli |-> MalformedStimuli, delta_time |-> DefaultDeltaTime]}

ErrChangesSet ==
    {("energy" :> -5000) @@ ("hunger" :> 1000),
     ("energy" :> -5000) @@ ("comfort" :> NotANumber),
     ("hunger" :> NotANumber) @@ ("integrity" :> -2000)}

MaxErrCalls == 3

ErrUpdateDrives ==
    /\ TotalCalls < MaxErrCalls
    /\ \E in \in ErrDriveInputs : UpdateDrives(in.external_stimuli, in.delta_time)

ErrUpdateInteroception ==
    /\ TotalCalls < MaxErrCalls
    /\ \E c \in ErrChangesSet : UpdateInteroception(c)

ErrRecordDecision ==
    /\ TotalCalls < MaxErrCalls
    /\ \E ctx \in ContextSet, ch \in ChoiceSet : RecordDecision(ctx, ch)

ErrAdvance ==
    /\ TotalCalls < MaxErrCalls
    /\ AdvanceDevelopmentalStage

ErrNext ==
    \/ ErrUpdateDrives
    \/ ErrUpdateInteroception
    \/ ErrRecordDecision
    \/ ErrAdvance
    \/ GetDominantDrive
    \/ ComputeAffectiveConflict
    \/ GetAffectiveSummary

SpecErr == Init /\ [][ErrNext]_vars

(***************************************************************************)
(* Properties                                                              *)
(***************************************************************************)
Last(h) == h[Len(h)]

\* C1: in the state right after any update_drives call, every drive has its
\* level in [0,1] and its urgency equal to |level - optimal|.
C1_LevelAndUrgencyAfterUpdate ==
    result.op = "update_drives" =>
        \A k \in DriveType :
            /\ 0 <= drives[k].current_level
            /\ drives[k].current_level <= Scale
            /\ drives[k].urgency = Abs(drives[k].current_level - drives[k].optimal_level)

\* update_drives has just run for the second time, after an advance and an
\* update_interoception or record_decision call, and has clamped one level
\* at 1 and another at 0.
C1_Witness ==
    /\ result.op = "update_drives"
    /\ calls.update_drives = 2
    /\ developmental_stage = 2
    /\ calls.update_interoception + calls.record_decision > 0
    /\ \E k \in DriveType : drives[k].current_level = Scale
    /\ \E k \in DriveType : drives[k].current_level = 0
    /\ \E k \in DriveType : drives[k].urgency > 0

\* C2: each drive's history has at most 100 entries, affective_history at
\* most 1000 and decision_history at most 500.
C2_HistoryBounds ==
    /\ \A k \in DriveType :
           Len(drives[k].satisfaction_history) <= SatisfactionHistoryCap
    /\ Len(affective_history) <= AffectiveHistoryCap
    /\ Len(decision_history) <= DecisionHistoryCap

\* more calls than capacity have been made for each of the three histories
C2_Witness ==
    /\ calls.update_drives > AffectiveHistoryCap
    /\ calls.record_decision > DecisionHistoryCap
    /\ \A k \in DriveType :
           Len(drives[k].satisfaction_history) = SatisfactionHistoryCap
    /\ Len(affective_history) = AffectiveHistoryCap
    /\ Len(decision_history) = DecisionHistoryCap

\* the result of appending e to h under first-in-first-out eviction
FifoAppend(h, e, cap) ==
    IF Len(h) >= cap THEN Append(SubSeq(h, 2, Len(h)), e) ELSE Append(h, e)

C3_FifoStep ==
    /\ IF result'.op = "update_drives"
       THEN /\ \A k \in DriveType :
                   drives'[k].satisfaction_history =
                       FifoAppend(drives[k].satisfaction_history,
                                  drives'[k].current_level, SatisfactionHistoryCap)
            /\ Len(affective_history') > 0
            /\ affective_history' =
                   FifoAppend(affective_history, Last(affective_history'),
                              AffectiveHistoryCap)
            /\ Last(affective_history').tension = current_tension'
            /\ Last(affective_history').drive_states =
                   [k \in DriveType |-> drives'[k].current_level]
       ELSE /\ \A k \in DriveType :
                   drives'[k].satisfaction_history = drives[k].satisfaction_history
            /\ affective_history' = affective_history
    /\ IF result'.op = "record_decision"
       THEN /\ Len(decision_history') > 0
            /\ decision_history' =
                   FifoAppend(decision_history, Last(decision_history'),
                              DecisionHistoryCap)
            /\ Last(decision_history').affective_state =
                   get_affective_summary(drives, interoceptive_signals,
                                         current_tension, developmental_stage)
       ELSE decision_history' = decision_history

\* C3: an append at capacity yields the previous sequence without its oldest
\* element followed by the new entry, an append below capacity yields the
\* previous sequence followed by the new entry, and no other operation
\* changes a history.
C3_FifoEviction == [][C3_FifoStep]_vars

\* a decision has just been recorded into a full decision_history, after
\* ticks that had filled and evicted from the other two histories
C3_Witness ==
    /\ result.op = "record_decision"
    /\ calls.record_decision = DecisionHistoryCap + 2
    /\ calls.update_drives >= AffectiveHistoryCap + 2
    /\ decision_history[1].timestamp = 2
    /\ affective_history[1].timestamp = 2
    /\ \E k \in DriveType :
           drives[k].satisfaction_history[1] # Last(drives[k].satisfaction_history)

OptimalLevels(dr) == [k \in DriveType |-> dr[k].optimal_level]

InitialOptimal == OptimalLevels(_initialize_drives)

Stage2Optimal == [InitialOptimal EXCEPT !["SEEK"] = 7000, !["PLAY"] = 6000]

Stage3Optimal == [k \in DriveType |-> 5000]

C4_AdvanceStep ==
    result'.op = "advance_developmental_stage" =>
        /\ calls'.advance_developmental_stage = 1 =>
               /\ developmental_stage = 1 /\ developmental_stage' = 2
               /\ OptimalLevels(drives') = Stage2Optimal
        /\ calls'.advance_developmental_stage = 2 =>
               /\ developmental_stage = 2 /\ developmental_stage' = 3
               /\ OptimalLevels(drives') = Stage3Optimal
        /\ calls'.advance_developmental_stage >= 3 =>
               /\ developmental_stage = 3 /\ developmental_stage' = 3
               /\ OptimalLevels(drives') = OptimalLevels(drives)

\* C4: from a fresh core the first advance_developmental_stage call yields
\* stage 2 with Seek.optimal = 0.7, Play.optimal = 0.6 and the other optimal
\* levels as constructed, the second yields stage 3 with every optimal 0.5,
\* and any later call changes neither the stage nor an optimal level,
\* whatever other calls are interleaved.
C4_AdvanceSequence == [][C4_AdvanceStep]_vars

\* a third advance call has just returned, with update_drives interleaved
C4_Witness ==
    /\ result.op = "advance_developmental_stage"
    /\ calls.advance_developmental_stage = 3
    /\ calls.update_drives > 0
    /\ developmental_stage = 3
    /\ OptimalLevels(drives) = Stage3Optimal

C5_StageStep ==
    /\ developmental_stage' >= developmental_stage
    /\ developmental_stage' <= developmental_stage + 1
    /\ developmental_stage' # developmental_stage =>
           result'.op = "advance_developmental_stage"

\* C5: developmental_stage is always in {1,2,3}, never decreases, increases
\* by at most 1 per step and changes only in advance_developmental_stage.
C5_StageMonotone == [](developmental_stage \in {1, 2, 3}) /\ [][C5_StageStep]_vars

\* the stage is terminal, advance has been called once more, and another
\* operation has run since
C5_Witness ==
    /\ developmental_stage = 3
    /\ calls.advance_developmental_stage = 3
    /\ result.op = "update_drives"

\* the level the claim gives for a drive after update_drives(stimuli, dt)
C6_Level(d, stimuli, k, dt) ==
    LET stimulus == IF k \in DOMAIN stimuli THEN stimuli[k] ELSE 0
        raw == d.current_level
               + FMul(d.optimal_level - d.current_level, HomeostasisRate)
               + FMul(stimulus, dt)
    IN  IF raw < 0 THEN 0 ELSE IF raw > Scale THEN Scale ELSE raw

C6_UpdateStep ==
    result'.op = "update_drives" =>
        /\ \A k \in DriveType :
               drives'[k].current_level =
                   C6_Level(drives[k], result'.args.external_stimuli, k,
                            result'.args.delta_time)
        /\ (/\ result'.args.external_stimuli = MainStimuli
            /\ result'.args.delta_time = DefaultDeltaTime
            /\ \A k \in DriveType :
                   /\ drives[k].current_level = _initialize_drives[k].current_level
                   /\ drives[k].optimal_level = _initialize_drives[k].optimal_level)
           => /\ drives'["SEEK"].current_level = 8100
              /\ drives'["AVOID"].current_level = 6800
              /\ drives'["REST"].current_level = 3200

\* C6: update_drives sets every drive's level to
\* clamp(level + (optimal - level) * 0.1 + stimulus * delta_time, 0, 1), with
\* stimulus 0 for a kind absent from the mapping and the level before the call
\* in the homeostasis term; on a fresh core the stimuli of the example give
\* Seek 0.81, Avoid 0.68 and Rest 0.32.
C6_LevelFormula == [][C6_UpdateStep]_vars

\* the example call on a fresh core has just returned
C6_Witness ==
    /\ result.op = "update_drives"
    /\ calls = [NoCalls EXCEPT !.update_drives = 1]
    /\ result.args.external_stimuli = MainStimuli
    /\ result.args.delta_time = DefaultDeltaTime
    /\ drives["SEEK"].current_level = 8100
    /\ drives["AVOID"].current_level = 6800
    /\ drives["REST"].current_level = 3200
    /\ drives["CARE"].current_level = 4100

DriveTerm(k) == FMul(drives[k].urgency, Abs(drives[k].current_level - drives[k].optimal_level))

SignalTerm(n) ==
    LET v == interoceptive_signals[n]
        low == OptimalRange[n][1]
        high == OptimalRange[n][2]
    IN  FMul(IF v < low THEN low - v ELSE IF v > high THEN v - high ELSE 0,
             AffectiveWeight[n])

C7_Total ==
    DriveTerm("SEEK") + DriveTerm("AVOID") + DriveTerm("REST") + DriveTerm("CARE")
    + DriveTerm("PLAY") + DriveTerm("RAGE") + DriveTerm("LUST")
    + SignalTerm("energy") + SignalTerm("integrity") + SignalTerm("comfort")
    + SignalTerm("social_connection")

\* C7: the value update_drives returns is the sum over the 7 drives of
\* urgency * tension() after the update plus the interoceptive tension of
\* the current signal values, and it is also the stored tension and the
\* tension of the snapshot the call appended to affective_history.
C7_ReturnedTension ==
    result.op = "update_drives" =>
        /\ result.value = C7_Total
        /\ current_tension = result.value
        /\ Len(affective_history) > 0
        /\ Last(affective_history).tension = result.value

\* update_drives has just returned a tension with a part from the drives and
\* a part from signals outside their optimal range
C7_Witness ==
    /\ result.op = "update_drives"
    /\ calls.update_interoception > 0
    /\ SignalTerm("energy") + SignalTerm("comfort") > 0
    /\ \E k \in DriveType : DriveTerm(k) > 0
    /\ result.value > SignalTerm("energy") + SignalTerm("comfort")

\* position of a drive kind in the order Seek, Avoid, Rest, Care, Play, Rage, Lust
Rank(k) == CHOOSE i \in 1..Len(DriveOrder) : DriveOrder[i] = k

\* C8: get_dominant_drive returns a drive of maximal urgency together with
\* that urgency, the earliest in the order Seek, Avoid, Rest, Care, Play,
\* Rage, Lust among the drives of maximal urgency, and never the
\* (None, -1.0) sentinel.
C8_DominantDrive ==
    result.op = "get_dominant_drive" =>
        /\ result.value.drive \in DriveType
        /\ result.value.urgency = drives[result.value.drive].urgency
        /\ \A k \in DriveType : drives[k].urgency <= result.value.urgency
        /\ \A k \in DriveType :
               drives[k].urgency = result.value.urgency =>
                   Rank(result.value.drive) <= Rank(k)

\* get_dominant_drive has just returned Avoid although a later drive is as
\* urgent as Avoid
C8_Witness ==
    /\ result.op = "get_dominant_drive"
    /\ result.value.drive = "AVOID"
    /\ result.value.urgency > 0
    /\ \E k \in DriveType \ {"AVOID"} : drives[k].urgency = result.value.urgency

PairConflict(a, b) ==
    IF drives[a].urgency > UrgencyThreshold /\ drives[b].urgency > UrgencyThreshold
    THEN FMul(drives[a].urgency, drives[b].urgency)
    ELSE 0

\* C9: compute_affective_conflict is the sum, over the opposed pairs
\* {Seek,Avoid}, {Rage,Care}, {Play,Rest} whose two urgencies both exceed
\* 0.3, of the product of the two urgencies; it is 0 when fewer than two
\* drives have urgency > 0.3, and neither a drive with urgency exactly 0.3
\* nor Lust contributes.
C9_AffectiveConflict ==
    result.op = "compute_affective_conflict" =>
        /\ result.value = PairConflict("SEEK", "AVOID") + PairConflict("RAGE", "CARE")
                          + PairConflict("PLAY", "REST")
        /\ Cardinality({k \in DriveType : drives[k].urgency > UrgencyThreshold}) < 2
               => result.value = 0

\* compute_affective_conflict has just returned a positive conflict in a
\* state where Lust is urgent and the partner of an urgent drive has
\* urgency exactly 0.3
C9_Witness ==
    /\ result.op = "compute_affective_conflict"
    /\ result.value > 0
    /\ drives["LUST"].urgency > UrgencyThreshold
    /\ drives["REST"].urgency = UrgencyThreshold
    /\ drives["PLAY"].urgency > UrgencyThreshold

C10_SignalStep ==
    IF result'.op = "update_interoception"
    THEN \A n \in SignalNames :
             interoceptive_signals'[n] =
                 IF n \in DOMAIN result'.args.internal_changes
                 THEN (LET v == interoceptive_signals[n]
                                + result'.args.internal_changes[n]
                       IN  IF v < 0 THEN 0 ELSE IF v > Scale THEN Scale ELSE v)
                 ELSE interoceptive_signals[n]
    ELSE interoceptive_signals' = interoceptive_signals

\* C10: every signal value is in [0,1] in every reachable state;
\* update_interoception sets each named known signal to
\* clamp(value + delta, 0, 1) and no other operation changes a signal value.
C10_SignalRange ==
    /\ [](\A n \in SignalNames :
              0 <= interoceptive_signals[n] /\ interoceptive_signals[n] <= Scale)
    /\ [][C10_SignalStep]_vars

\* update_interoception has just clamped one signal at 1 and another at 0
C10_Witness ==
    /\ result.op = "update_interoception"
    /\ interoceptive_signals["integrity"] = Scale
    /\ interoceptive_signals["comfort"] = 0
    /\ interoceptive_signals["energy"] = 3000

(***************************************************************************)
(* Claims C11 to C20                                                       *)
(***************************************************************************)
\* the known names of internal_changes all carry numbers
WellFormedChanges(internal_changes) ==
    \A n \in DOMAIN internal_changes \cap SignalNames :
        internal_changes[n] # NotANumber

C11_InteroceptionStep ==
    result'.op = "update_interoception" =>
        LET internal_changes == result'.args.internal_changes
        IN  /\ UNCHANGED <<drives, current_tension, affective_history,
                           decision_history, developmental_stage>>
            /\ DOMAIN interoceptive_signals' = SignalNames
            /\ \A n \in SignalNames \ DOMAIN internal_changes :
                   interoceptive_signals'[n] = interoceptive_signals[n]
            /\ WellFormedChanges(internal_changes) => ~result'.raised

\* C11: update_interoception does not raise on a name that is not a signal
\* of the core (whatever its value); it changes only the signals that are
\* named and known, leaves drives, tension, both histories and the stage as
\* they were, and the set of signals stays the four of the construction.
C11_UnknownNameIgnored ==
    /\ [](DOMAIN interoceptive_signals = SignalNames)
    /\ [][C11_InteroceptionStep]_vars

\* update_interoception has returned from a call that named "hunger", with a
\* value that is not a number, and has applied the other entry of the call
C11_Witness ==
    /\ result.op = "update_interoception"
    /\ ~result.raised
    /\ "hunger" \in DOMAIN result.args.internal_changes
    /\ result.args.internal_changes["hunger"] = NotANumber
    /\ interoceptive_signals["integrity"] = 8000

C12_UpdateDrivesStep ==
    (/\ result'.op = "update_drives"
     /\ ~(DOMAIN result'.args.external_stimuli \subseteq DriveType))
        => result'.raised

\* C12: an update_drives call whose stimuli mapping contains a key that is
\* not one of the 7 drive kinds raises an error.
C12_UnknownKeyRejected == [][C12_UpdateDrivesStep]_vars

\* C13: a call of update_drives or update_interoception that raises leaves
\* every drive, every signal value, the stored tension, both histories and
\* the stage as they were before the call.
C13_FailedCallUnchanged ==
    [][result'.raised =>
           UNCHANGED <<drives, interoceptive_signals, current_tension,
                       affective_history, decision_history,
                       developmental_stage>>]_vars

C14_DriveSum ==
    DriveTerm("SEEK") + DriveTerm("AVOID") + DriveTerm("REST") + DriveTerm("CARE")
    + DriveTerm("PLAY") + DriveTerm("RAGE") + DriveTerm("LUST")

C14_Sum ==
    SignalTerm("energy") + SignalTerm("integrity") + SignalTerm("comfort")
    + SignalTerm("social_connection")

\* C14: the interoceptive tension is the sum over the signals of
\* deviation * weight, with deviation 0 inside [low, high], low - value
\* below and value - high above; it is 0 when every signal is in its range,
\* so the tension update_drives returns before any update_interoception
\* call is the part of the drives alone.
C14_InteroceptiveTension ==
    /\ _compute_interoceptive_tension(interoceptive_signals) = C14_Sum
    /\ (\A n \in SignalNames : is_optimal(interoceptive_signals, n))
           => _compute_interoceptive_tension(interoceptive_signals) = 0
    /\ calls.update_interoception = 0
           => /\ _compute_interoceptive_tension(interoceptive_signals) = 0
              /\ result.op = "update_drives" => result.value = C14_DriveSum

\* update_drives has returned while one signal is below its range, one is
\* above it and one is on a bound of it
C14_Witness ==
    /\ result.op = "update_drives"
    /\ interoceptive_signals["comfort"] < OptimalRange["comfort"][1]
    /\ interoceptive_signals["social_connection"]
           > OptimalRange["social_connection"][2]
    /\ interoceptive_signals["integrity"] = OptimalRange["integrity"][2]
    /\ C14_Sum > 0

C15_OptimalStep ==
    \A k \in DriveType :
        drives'[k].optimal_level # drives[k].optimal_level =>
            /\ result'.op = "advance_developmental_stage"
            /\ developmental_stage' # developmental_stage

\* C15: a drive's optimal level changes only in an
\* advance_developmental_stage call that changes the stage (every other
\* call, and advance at stage 3, leaves it as it is), and every optimal
\* level is in [0,1].  The optimal_range and weight of a signal are the
\* fixed OptimalRange and AffectiveWeight: no operation assigns them.
C15_OptimalLevelFrame ==
    /\ [](\A k \in DriveType :
              0 <= drives[k].optimal_level /\ drives[k].optimal_level <= Scale)
    /\ [][C15_OptimalStep]_vars

\* advance_developmental_stage has been called at stage 3, after an
\* update_drives call and the two advances that changed the optimal levels
C15_Witness ==
    /\ result.op = "advance_developmental_stage"
    /\ developmental_stage = 3
    /\ calls.advance_developmental_stage = 3
    /\ calls.update_drives = 1
    /\ OptimalLevels(drives) = Stage3Optimal

C16_QueryStep ==
    result'.op \in {"get_affective_summary", "get_dominant_drive",
                    "compute_affective_conflict"} =>
        UNCHANGED <<drives, interoceptive_signals, current_tension,
                    affective_history, decision_history, developmental_stage>>

C16_RecordStep ==
    result'.op = "record_decision" =>
        LET entry == Last(decision_history')
        IN  /\ UNCHANGED <<drives, interoceptive_signals, current_tension,
                           affective_history, developmental_stage>>
            /\ Len(decision_history') =
                   IF Len(decision_history) < DecisionHistoryCap
                   THEN Len(decision_history) + 1 ELSE DecisionHistoryCap
            /\ \A i \in 1..(Len(decision_history') - 1) :
                   decision_history'[i] =
                       decision_history[i + Len(decision_history) + 1
                                          - Len(decision_history')]
            /\ entry.context = result'.args.decision_context
            /\ entry.choice = result'.args.choice
            /\ entry.affective_state =
                   get_affective_summary(drives, interoceptive_signals,
                                         current_tension, developmental_stage)
            /\ entry.affective_state.current_tension = current_tension
            /\ entry.affective_state.developmental_stage = developmental_stage
            /\ \A k \in DriveType :
                   entry.affective_state.drive_states[k].level
                       = drives[k].current_level
            /\ \A n \in SignalNames :
                   entry.affective_state.interoceptive_states[n].value
                       = interoceptive_signals[n]

\* C16: get_affective_summary, get_dominant_drive and
\* compute_affective_conflict change no state; record_decision changes only
\* decision_history, to which it appends one entry with the passed context
\* and choice and the affective summary of the state it was called in.
C16_QueriesAndRecordFrame == [][C16_QueryStep /\ C16_RecordStep]_vars

\* two decisions have been recorded, with an update_drives call between
\* them, so that their summaries differ
C16_Witness ==
    /\ result.op = "record_decision"
    /\ Len(decision_history) = 2
    /\ decision_history[1].affective_state.current_tension = 0
    /\ decision_history[2].affective_state.current_tension > 0
    /\ decision_history[2].affective_state.current_tension = current_tension

\* C17: in every reachable state, the freshly constructed core and the
\* states right after advance_developmental_stage included, each drive's
\* urgency equals |level - optimal|.
C17_UrgencyIsTension ==
    \A k \in DriveType : drives[k].urgency = tension(drives[k])

C17_UrgencyStep ==
    \A k \in DriveType :
        IF result'.op = "update_drives"
        THEN \/ drives'[k] = drives[k] /\ result'.raised
             \/ drives'[k].urgency
                    = Abs(drives'[k].current_level - drives'[k].optimal_level)
        ELSE drives'[k].urgency = drives[k].urgency

\* C17 as amended: every urgency is 0.0 on a fresh core; update_drives sets
\* the urgency of each drive it updates to |level - optimal|, so right after
\* a call that returns every urgency is the drive's tension; no other
\* operation assigns an urgency, and advance_developmental_stage changes
\* optimal levels without recomputing it.
C17_UrgencyFromLastUpdate ==
    /\ []((calls.update_drives = 0 /\ calls.raised = 0) =>
              \A k \in DriveType : drives[k].urgency = 0)
    /\ []((result.op = "update_drives" /\ ~result.raised) =>
              C17_UrgencyIsTension)
    /\ [][C17_UrgencyStep]_vars

\* advance_developmental_stage has changed the optimal level of SEEK after
\* an update_drives call: the urgency of SEEK is still the tension of that
\* call, not |level - optimal|
C17_Witness ==
    /\ result.op = "advance_developmental_stage"
    /\ calls.update_drives > 0
    /\ developmental_stage = 2
    /\ drives["SEEK"].urgency # tension(drives["SEEK"])
    /\ drives["SEEK"].urgency > 0

Increasing(h) ==
    \A i \in 1..(Len(h) - 1) : h[i].timestamp < h[i + 1].timestamp

\* C18: in every reachable state the timestamps of the entries of
\* affective_history are strictly increasing from oldest to newest, and so
\* are those of decision_history, also once the history is at capacity.
C18_TimestampsIncreasing ==
    Increasing(affective_history) /\ Increasing(decision_history)

Min(a, b) == IF a < b THEN a ELSE b

\* C19: after n update_drives calls that have returned, every drive's
\* history has length min(n, 100), affective_history has length
\* min(n, 1000), a non-empty drive history ends with the drive's current
\* level and the newest snapshot holds the drives' current levels.
C19_HistoriesFollowCalls ==
    /\ \A k \in DriveType :
           /\ Len(drives[k].satisfaction_history)
                  = Min(calls.update_drives, SatisfactionHistoryCap)
           /\ drives[k].satisfaction_history # <<>> =>
                  Last(drives[k].satisfaction_history) = drives[k].current_level
    /\ Len(affective_history) = Min(calls.update_drives, AffectiveHistoryCap)
    /\ affective_history # <<>> =>
           \A k \in DriveType :
               Last(affective_history).drive_states[k] = drives[k].current_level

C20_DriveStep(k) ==
    LET level == drives[k].current_level
        optimal == drives[k].optimal_level
        after == drives'[k].current_level
    IN  /\ drives'[k].optimal_level = optimal
        /\ Abs(after - optimal) <= Abs(level - optimal)
        /\ level = optimal => after = optimal
        /\ level <= optimal => level <= after /\ after <= optimal
        /\ level >= optimal => optimal <= after /\ after <= level

C20_HomeostasisStep ==
    /\ result'.op = "update_drives" =>
           \A k \in DriveType :
               StimulusOf(result'.args.external_stimuli, k) = 0 => C20_DriveStep(k)
    /\ result'.op \notin {"update_drives", "advance_developmental_stage"} =>
           \A k \in DriveType : tension(drives'[k]) = tension(drives[k])

\* C20: an update_drives call in which a drive's stimulus is 0 or absent
\* moves the drive's level toward its optimal level without crossing it:
\* its tension does not grow and stays 0 if it was 0; no operation other
\* than update_drives and advance_developmental_stage changes a tension, so
\* over such calls with no advance between them the tension never grows.
C20_NoOvershoot == [][C20_HomeostasisStep]_vars

\* at stage 3, update_drives without stimuli has left SEEK on its optimal
\* level and moved AVOID from 0.3 toward 0.5
C20_Witness ==
    /\ result.op = "update_drives"
    /\ result.args.external_stimuli = EmptyStimuli
    /\ developmental_stage = 3
    /\ calls.update_drives = 1
    /\ drives["SEEK"].current_level = drives["SEEK"].optimal_level
    /\ drives["AVOID"].current_level = 3200

====
